---------------------------- MODULE Spec2Model ----------------------------
(***************************************************************************)
(* Partition discovery of exhume_partitions: the MBR decoder, the         *)
(* recursive EBR chain walker, the GPT header/entry reader and the        *)
(* orchestrator Partitions::new, run against a byte image behind a        *)
(* seekable source (Body).                                                 *)
(*                                                                         *)
(* The image is a sequence of bytes; every structure the program finds is *)
(* decoded from those bytes at the offsets the code uses.  Integer widths *)
(* are those of the Rust types (u8, u16, u32, u64; usize is 64 bits).     *)
(***************************************************************************)
EXTENDS Integers, Naturals, Sequences, FiniteSets, TLC

VARIABLES
    image,          \* the bytes of the source, image[i] is the byte at offset i-1
    pos,            \* the seek position of the Body handle
    pc,             \* where the discovery call stands
    mbr_record,     \* Partitions.mbr
    ebr_record,     \* Partitions.ebr
    gpt_record,     \* Partitions.gpt
    slot,           \* discover_ebr_partitions: index (1..4) of the slot of the for loop
    all_partitions, \* discover_ebr_partitions: all_partitions
    next_lba,       \* parse_ebr: the start_lba argument of the call being entered
    frames,         \* parse_ebr: the live calls, outermost first
    visited,        \* history: the links of the walk in progress (every parse_ebr call)
    walks,          \* history: the walks, one per parse_ebr call of the orchestrator
    cause,          \* why the process aborted ("" while it has not)
    input,          \* a decoder called on its own: its name and its argument
    output          \* what that call returned

vars == <<image, pos, pc, mbr_record, ebr_record, gpt_record, slot,
          all_partitions, next_lba, frames, visited, walks, cause,
          input, output>>

---------------------------------------------------------------------------
(* Program constants *)

DEFAULT_SECTOR_SIZE == 512

MBR_SIGNATURE == 43605          \* 0xAA55

MBR_LEN == 512

BOOTLOADER_LEN == 446

GPT_BUFFER_LEN == 1024

GPT_ENTRY_LEN == 128

EFI_PART == <<69, 70, 73, 32, 80, 65, 82, 84>>   \* b"EFI PART"

None == [none |-> TRUE]

Some(v) == [some |-> v]

IsSome(o) == "some" \in DOMAIN o

---------------------------------------------------------------------------
(* Bounds of the model *)

\* The images have this many 512-byte sectors (LBA 0 .. MaxSectors-1).
MaxSectors == 4

\* The largest entry count a GPT header of the model declares.
MaxEntries == 2

\* parse_ebr calls (each one stack frame) that fit on the thread's stack
\* beyond one per sector of the image; the recursion itself has no bound.
StackSlack == 1

StackLimit == MaxSectors + StackSlack

\* LBAs 1 .. LastLba follow the boot sector
LastLba == MaxSectors - 1

---------------------------------------------------------------------------
(* Bytes and fixed-width integers *)
(* A u8 or u16 is an integer.  A u32, u64 or usize is the sequence of its  *)
(* bytes, least significant first (4 or 8 of them): the values of the      *)
(* image reach 2^32 - 1 and the sums and products the code forms are kept *)
(* at the width of their Rust type, their carry being the overflow.        *)

Zeros(n) == [i \in 1..n |-> 0]

\* The len bytes of bytes from offset off (0-based).
Slice(bytes, off, len) == SubSeq(bytes, off + 1, off + len)

\* The w-byte integer of value n, for 0 <= n < 2^31.
Num(n, w) ==
    LET RECURSIVE Limbs(_, _)
        Limbs(m, k) == IF k = 0 THEN <<>> ELSE <<m % 256>> \o Limbs(m \div 256, k - 1)
    IN Limbs(n, w)

\* Whether the value of a is below 2^24 (it then is an integer the model
\* checker can hold).
IsSmall(a) == \A i \in 1..Len(a) : i > 3 => a[i] = 0

\* The value of a when IsSmall(a).
Val(a) == a[1] + 256 * a[2] + 65536 * a[3]

\* min(value of a, cap)
ValCapped(a, cap) == IF IsSmall(a) /\ Val(a) < cap THEN Val(a) ELSE cap

\* read_u16::<BigEndian>: the first byte read is the most significant
ReadU16BE(bytes, off) == 256 * bytes[off + 1] + bytes[off + 2]

\* ReadBytesExt::read_u16::<LittleEndian> at offset off.
ReadU16LE(bytes, off) == bytes[off + 1] + 256 * bytes[off + 2]

\* read_u32::<BigEndian> / read_u64::<BigEndian>: the first byte read is the
\* most significant
ReadBE(bytes, off, w) == [i \in 1..w |-> bytes[off + w + 1 - i]]

\* ReadBytesExt::read_u32::<LittleEndian> / read_u64::<LittleEndian> at
\* offset off: the first byte read is the least significant.
ReadLE(bytes, off, w) == Slice(bytes, off, w)

\* `a as usize` / `a as u64`: zero extension to w bytes.
Widen(a, w) == a \o Zeros(w - Len(a))

\* a + b on equal widths: the wrapped sum and the carry out of the top byte.
AddCarry(a, b) ==
    LET w == Len(a)
        RECURSIVE Go(_, _)
        Go(i, c) == IF i > w THEN <<c>>
                    ELSE <<(a[i] + b[i] + c) % 256>> \o Go(i + 1, (a[i] + b[i] + c) \div 256)
        r == Go(1, 0)
    IN [sum |-> SubSeq(r, 1, w), carry |-> r[w + 1]]

\* a * k for a small k: the wrapped product and what was carried out.
MulCarry(a, k) ==
    LET w == Len(a)
        RECURSIVE Go(_, _)
        Go(i, c) == IF i > w THEN <<c>>
                    ELSE <<(a[i] * k + c) % 256>> \o Go(i + 1, (a[i] * k + c) \div 256)
        r == Go(1, 0)
    IN [prod |-> SubSeq(r, 1, w), carry |-> r[w + 1]]

---------------------------------------------------------------------------
(* The source: exhume_body::Body through std::io::Read and Seek.  A read   *)
(* delivers the bytes from the seek position up to the end of the image    *)
(* and leaves the rest of the (zeroed) buffer as it was; a seek past the   *)
(* end is allowed and every read there delivers nothing, so the position   *)
(* is kept as min(position, image length).                                 *)

Min(a, b) == IF a < b THEN a ELSE b

\* body.seek(SeekFrom::Start(off)), off a u64
BodySeek(img, off) == ValCapped(off, Len(img))

\* body.read(&mut buf) on a zeroed buffer of len bytes, at position p
BodyRead(img, p, len) ==
    LET n == Min(len, Len(img) - p)
    IN [buf |-> Slice(img, p, n) \o Zeros(len - n), n |-> n, pos |-> p + n]

---------------------------------------------------------------------------
(* mbr.rs *)

\* The entry read with the partition type taken before the CHS address, in
\* the place of the boot indicator
MBRPartitionEntry_typeFirst(bytes, off) ==
    LET start_lba == Slice(bytes, off + 8, 4)
    IN [boot_indicator  |-> bytes[off + 5],
        start_chs       |-> Slice(bytes, off + 1, 3),
        partition_type  |-> bytes[off + 1],
        end_chs         |-> Slice(bytes, off + 5, 3),
        start_lba       |-> start_lba,
        size_sectors    |-> Slice(bytes, off + 12, 4),
        sector_size     |-> 512,
        first_byte_addr |-> MulCarry(start_lba \o <<0, 0, 0, 0>>, 512).prod]

\* One 16-byte partition table entry, as MBR::from_bytes reads it with its
\* cursor at offset off.
MBRPartitionEntry(bytes, off) ==
    LET start_lba == ReadLE(bytes, off + 8, 4)
        sector_size == 512
    IN [boot_indicator  |-> bytes[off + 1],
        start_chs       |-> Slice(bytes, off + 1, 3),
        partition_type  |-> bytes[off + 5],
        end_chs         |-> Slice(bytes, off + 5, 3),
        start_lba       |-> start_lba,
        size_sectors    |-> ReadLE(bytes, off + 12, 4),
        sector_size     |-> sector_size,
        first_byte_addr |-> MulCarry(Widen(start_lba, 8), sector_size).prod]

\* a & b and a | b on w bits
RECURSIVE BitAnd(_, _, _)
BitAnd(a, b, w) ==
    IF w = 0 THEN 0
    ELSE (a % 2) * (b % 2) + 2 * BitAnd(a \div 2, b \div 2, w - 1)

RECURSIVE BitOr(_, _, _)
BitOr(a, b, w) ==
    IF w = 0 THEN 0
    ELSE (IF (a % 2) + (b % 2) > 0 THEN 1 ELSE 0) + 2 * BitOr(a \div 2, b \div 2, w - 1)

\* a << n on a u16
Shl16(a, n) == (a * (2 ^ n)) % 65536

\* chs_tuple without the masks: the whole second byte taken as the sector
\* and shifted into the cylinder
chs_tuple_unmasked(bytes) ==
    <<BitOr(Shl16(bytes[2], 2), bytes[3], 16), bytes[1], bytes[2]>>

\* chs_tuple with the third byte alone as the cylinder
chs_tuple_low_cylinder(bytes) ==
    <<bytes[3], bytes[1], BitAnd(bytes[2], 63, 8)>>

\* MBRPartitionEntry::chs_tuple: (cylinder, head, sector)
chs_tuple(bytes) ==
    LET head     == bytes[1]
        sector   == BitAnd(bytes[2], 63, 8)
        cylinder == BitOr(Shl16(BitAnd(bytes[2], 192, 16), 2), bytes[3], 16)
    IN <<cylinder, head, sector>>

\* MBR::from_bytes; an input shorter than 512 bytes ends the process.
MBR_from_bytes(bytes) ==
    IF Len(bytes) < MBR_LEN
    THEN [exit |-> 1]
    ELSE [bootloader      |-> Slice(bytes, 0, BOOTLOADER_LEN),
          partition_table |-> [i \in 1..4 |->
                                 MBRPartitionEntry(bytes, BOOTLOADER_LEN + 16 * (i - 1))],
          boot_signature  |-> ReadU16LE(bytes, BOOTLOADER_LEN + 64)]

\* is_mbr testing for the bytes' order on disk (55 AA) instead of the value
is_mbr_swapped(mbr) == mbr.boot_signature = 21930

\* MBR::is_mbr
is_mbr(mbr) == mbr.boot_signature = MBR_SIGNATURE

\* MBR::is_pmbr, which discover_mbr_partitions calls on a valid MBR; its
\* body is not among the sources and is taken from the specification's
\* is_protective_mbr: some slot has partition_type 0xEE.
is_pmbr(mbr) == \E i \in 1..4 : mbr.partition_table[i].partition_type = 238

---------------------------------------------------------------------------
(* gpt.rs *)

HexDigit(n) == <<"0", "1", "2", "3", "4", "5", "6", "7",
                 "8", "9", "a", "b", "c", "d", "e", "f">>[n + 1]

\* {:x} of one byte: no leading zero
Hex2_unpadded(b) == IF b < 16 THEN <<HexDigit(b)>> ELSE <<HexDigit(b \div 16), HexDigit(b % 16)>>

\* {:02x} of one byte
Hex2(b) == <<HexDigit(b \div 16), HexDigit(b % 16)>>

\* format_guid printing the 16 bytes in the order they are stored in
format_guid_as_stored(guid) ==
    Hex2(guid[1]) \o Hex2(guid[2]) \o Hex2(guid[3]) \o Hex2(guid[4]) \o <<"-">> \o
    Hex2(guid[5]) \o Hex2(guid[6]) \o <<"-">> \o
    Hex2(guid[7]) \o Hex2(guid[8]) \o <<"-">> \o
    Hex2(guid[9]) \o Hex2(guid[10]) \o <<"-">> \o
    Hex2(guid[11]) \o Hex2(guid[12]) \o Hex2(guid[13]) \o
    Hex2(guid[14]) \o Hex2(guid[15]) \o Hex2(guid[16])

\* format_guid: the string, as the sequence of its characters
format_guid(guid) ==
    Hex2(guid[4]) \o Hex2(guid[3]) \o Hex2(guid[2]) \o Hex2(guid[1]) \o <<"-">> \o
    Hex2(guid[6]) \o Hex2(guid[5]) \o <<"-">> \o
    Hex2(guid[8]) \o Hex2(guid[7]) \o <<"-">> \o
    Hex2(guid[9]) \o Hex2(guid[10]) \o <<"-">> \o
    Hex2(guid[11]) \o Hex2(guid[12]) \o Hex2(guid[13]) \o
    Hex2(guid[14]) \o Hex2(guid[15]) \o Hex2(guid[16])

\* GPT::from_bytes: the header fields of the buffer read at LBA 1; no
\* partition entry yet.
GPT_from_bytes(bytes) ==
    LET disk_guid == Slice(bytes, 56, 16)
    IN [header |->
          [signature             |-> Slice(bytes, 0, 8),
           revision              |-> ReadLE(bytes, 8, 4),
           header_size           |-> ReadLE(bytes, 12, 4),
           crc32                 |-> ReadLE(bytes, 16, 4),
           reserved              |-> ReadLE(bytes, 20, 4),
           current_lba           |-> ReadLE(bytes, 24, 8),
           backup_lba            |-> ReadLE(bytes, 32, 8),
           first_usable_lba      |-> ReadLE(bytes, 40, 8),
           last_usable_lba       |-> ReadLE(bytes, 48, 8),
           disk_guid             |-> disk_guid,
           disk_guid_string      |-> format_guid(disk_guid),
           partition_entry_lba   |-> ReadLE(bytes, 72, 8),
           num_partition_entries |-> ReadLE(bytes, 80, 4),
           partition_entry_size  |-> ReadLE(bytes, 84, 4),
           partition_array_crc32 |-> ReadLE(bytes, 88, 4)],
        partition_entries |-> <<>>]

\* is_gpt comparing the first four bytes only
is_gpt_first4(gpt) == Slice(gpt.header.signature, 0, 4) = Slice(EFI_PART, 0, 4)

\* GPT::is_gpt
is_gpt(gpt) == gpt.header.signature = EFI_PART

---------------------------------------------------------------------------
(* ebr.rs *)

\* parse_ebr with the recursion inside the if of slot 0: a link without a
\* logical partition ends the walk
parse_ebr_link_stop_on_empty(img, start_lba, sector_size) ==
    LET ebr_absolute_lba == MulCarry(Widen(start_lba, 8), sector_size).prod
        rd  == BodyRead(img, BodySeek(img, ebr_absolute_lba), MBR_LEN)
        ebr == MBR_from_bytes(rd.buf)
        logical_partition == ebr.partition_table[1]
        add == AddCarry(start_lba, logical_partition.start_lba)
        rewritten ==
            [logical_partition EXCEPT
               !.start_lba = add.sum,
               !.first_byte_addr = MulCarry(Widen(add.sum, 8), sector_size).prod]
        next_ebr_partition == ebr.partition_table[2]
    IN [read_at  |-> ebr_absolute_lba,
        pos      |-> rd.pos,
        found    |-> IF logical_partition.partition_type # 0
                     THEN <<rewritten>> ELSE <<>>,
        overflow |-> logical_partition.partition_type # 0 /\ add.carry # 0,
        recurse  |-> logical_partition.partition_type # 0
                       /\ next_ebr_partition.partition_type # 0,
        next     |-> next_ebr_partition.start_lba]

\* The body of one parse_ebr call up to the recursive call: the seek, the
\* read of 512 bytes, the decoding, the rewrite of slot 0.
\*   found    : partitions_found before the recursion
\*   overflow : start_lba + slot 0's start_lba does not fit in a u32 (the
\*              addition then panics in a build with overflow checks and
\*              wraps in one without)
\*   recurse  : slot 1 has a type, next is its start_lba
parse_ebr_link(img, start_lba, sector_size) ==
    LET ebr_absolute_lba == MulCarry(Widen(start_lba, 8), sector_size).prod
        rd  == BodyRead(img, BodySeek(img, ebr_absolute_lba), MBR_LEN)
        ebr == MBR_from_bytes(rd.buf)
        logical_partition == ebr.partition_table[1]
        add == AddCarry(start_lba, logical_partition.start_lba)
        rewritten ==
            [logical_partition EXCEPT
               !.start_lba = add.sum,
               !.first_byte_addr = MulCarry(Widen(add.sum, 8), sector_size).prod]
        next_ebr_partition == ebr.partition_table[2]
    IN [read_at  |-> ebr_absolute_lba,
        pos      |-> rd.pos,
        found    |-> IF logical_partition.partition_type # 0
                     THEN <<rewritten>> ELSE <<>>,
        overflow |-> logical_partition.partition_type # 0 /\ add.carry # 0,
        recurse  |-> next_ebr_partition.partition_type # 0,
        next     |-> next_ebr_partition.start_lba]

---------------------------------------------------------------------------
(* lib.rs *)

\* One partition entry, decoded from the entry_data buffer through the cursor
\* (16 + 16 + 8 + 8 + 8 bytes, then 36 UTF-16 code units).  The name and the
\* description are not part of the model; first_byte_addr and size_sectors
\* keep their Default values, the code assigns neither.
GPTPartitionEntry(entry_data) ==
    LET partition_type_guid == Slice(entry_data, 0, 16)
        partition_guid      == Slice(entry_data, 16, 16)
    IN [partition_type_guid        |-> partition_type_guid,
        partition_guid             |-> partition_guid,
        starting_lba               |-> ReadLE(entry_data, 32, 8),
        ending_lba                 |-> ReadLE(entry_data, 40, 8),
        attributes                 |-> ReadLE(entry_data, 48, 8),
        first_byte_addr            |-> Zeros(8),
        size_sectors               |-> Zeros(8),
        partition_type_guid_string |-> format_guid(partition_type_guid),
        partition_guid_string      |-> format_guid(partition_guid)]

\* The for loop of discover_gpt_partitions: num_entries times, read_exact of
\* entry_size bytes at the source's position, then the decoding.
\*   "eof"   : read_exact meets the end of the image (.expect panics)
\*   "short" : the record holds fewer than the 128 bytes the cursor reads
\*             (.expect / .unwrap panics)
RECURSIVE ReadEntries(_, _, _, _, _)
ReadEntries(img, p, left, entry_size, acc) ==
    IF left = 0 THEN [outcome |-> "ok", entries |-> acc, pos |-> p]
    ELSE IF p + entry_size > Len(img)
    THEN [outcome |-> "eof", entries |-> acc, pos |-> Len(img)]
    ELSE IF entry_size < GPT_ENTRY_LEN
    THEN [outcome |-> "short", entries |-> acc, pos |-> p + entry_size]
    ELSE LET entry == GPTPartitionEntry(Slice(img, p, entry_size))
         IN ReadEntries(img, p + entry_size, left - 1, entry_size,
                        Append(acc, entry))

\* discover_gpt_partitions with read_exact in the place of read for the
\* header buffer: a short read is an Err and the .expect panics ("eof")
discover_gpt_partitions_read_exact(img) ==
    LET rd  == BodyRead(img, BodySeek(img, Num(DEFAULT_SECTOR_SIZE, 8)), GPT_BUFFER_LEN)
        gpt == GPT_from_bytes(rd.buf)
        mul == MulCarry(gpt.header.partition_entry_lba, DEFAULT_SECTOR_SIZE)
        num_entries == ValCapped(gpt.header.num_partition_entries, Len(img) + 1)
        entry_size  == ValCapped(gpt.header.partition_entry_size, Len(img) + 1)
        loop == ReadEntries(img, BodySeek(img, mul.prod), num_entries, entry_size, <<>>)
    IN IF rd.n < GPT_BUFFER_LEN
       THEN [outcome |-> "eof", overflow |-> FALSE, gpt |-> gpt, pos |-> rd.pos]
       ELSE IF gpt.header.signature = EFI_PART
       THEN [outcome  |-> loop.outcome,
             overflow |-> mul.carry # 0,
             gpt      |-> [gpt EXCEPT !.partition_entries = loop.entries],
             pos      |-> loop.pos]
       ELSE [outcome |-> "err", overflow |-> FALSE, gpt |-> gpt, pos |-> rd.pos]

\* discover_gpt_partitions, the source answering every seek and read.
\*   outcome "ok"  : Ok(gpt)
\*           "err" : Err("No GPT signature found")
\*           "eof", "short" : a panic of the entry loop
\*   overflow : partition_entry_lba * 512 does not fit in a u64
discover_gpt_partitions(img) ==
    LET rd  == BodyRead(img, BodySeek(img, Num(DEFAULT_SECTOR_SIZE, 8)), GPT_BUFFER_LEN)
        gpt == GPT_from_bytes(rd.buf)
        mul == MulCarry(gpt.header.partition_entry_lba, DEFAULT_SECTOR_SIZE)
        num_entries == ValCapped(gpt.header.num_partition_entries, Len(img) + 1)
        entry_size  == ValCapped(gpt.header.partition_entry_size, Len(img) + 1)
        loop == ReadEntries(img, BodySeek(img, mul.prod), num_entries, entry_size, <<>>)
    IN IF is_gpt(gpt)
       THEN [outcome  |-> loop.outcome,
             overflow |-> mul.carry # 0,
             gpt      |-> [gpt EXCEPT !.partition_entries = loop.entries],
             pos      |-> loop.pos]
       ELSE [outcome |-> "err", overflow |-> FALSE, gpt |-> gpt, pos |-> rd.pos]

---------------------------------------------------------------------------
(* The images of the model, written with the on-disk layouts the decoders  *)
(* read: an MBR-shaped sector is 446 bytes, four 16-byte entries and the   *)
(* signature; a GPT header is 92 bytes; a GPT entry is 128 bytes.          *)

\* boot indicator, CHS, type, CHS, start LBA, size
EntryBytes(boot, type, start_lba, size_sectors) ==
    <<boot, 0, 0, 0, type, 0, 0, 0>> \o start_lba \o size_sectors

UnusedEntry == Zeros(16)

\* A sector with `head` at its start, the partition table and the signature
BootSector(head, table, signature) ==
    head \o Zeros(BOOTLOADER_LEN - Len(head)) \o table[1] \o table[2] \o table[3]
         \o table[4] \o <<signature % 256, signature \div 256>>

ZeroSector == Zeros(DEFAULT_SECTOR_SIZE)

\* 0xFFFFFFFF
MaxU32 == <<255, 255, 255, 255>>

\* An EBR link: slot 0 is unused ("none"), a logical partition 1 sector
\* after the link ("data") or one 2^32 - 1 sectors after it ("far"), of
\* size sectors; slot 1 is unused (ptr = 0) or an extended entry with
\* start_lba ptr.
EbrSector(kind, ptr, size) ==
    BootSector(<<>>,
               <<IF kind = "none" THEN UnusedEntry
                 ELSE EntryBytes(0, 131, IF kind = "far" THEN MaxU32 ELSE Num(1, 4),
                                 Num(size, 4)),
                 IF ptr = 0 THEN UnusedEntry ELSE EntryBytes(0, 5, Num(ptr, 4), Num(1, 4)),
                 UnusedEntry, UnusedEntry>>,
               MBR_SIGNATURE)

\* The kinds of a partition table slot of the model's MBRs
SlotKinds == {"unused", "primary", "badboot", "nostart", "ext05", "ext0F", "ext85", "protective"}

SlotBytes(kind) ==
    CASE kind = "unused"     -> UnusedEntry
      [] kind = "primary"    -> EntryBytes(128, 131, Num(1, 4), Num(2, 4))
      [] kind = "badboot"    -> EntryBytes(1, 131, Num(1, 4), Num(2, 4))
      [] kind = "nostart"    -> EntryBytes(0, 131, Num(0, 4), Num(2, 4))
      [] kind = "ext05"      -> EntryBytes(0, 5, Num(1, 4), Num(2, 4))
      [] kind = "ext0F"      -> EntryBytes(0, 15, Num(2, 4), Num(1, 4))
      [] kind = "ext85"      -> EntryBytes(0, 133, Num(1, 4), Num(2, 4))
      [] kind = "protective" -> EntryBytes(0, 238, Num(1, 4), MaxU32)

\* C12A7328-F81F-11D2-BA4B-00A0C93EC93B (EFI system partition), as stored
EspGuid == <<40, 115, 42, 193, 31, 248, 210, 17, 186, 75, 0, 160, 201, 62, 201, 59>>

\* 0FC63DAF-8483-4772-8E79-3D69D8477DE4 (Linux filesystem), as stored
LinuxGuid == <<175, 61, 198, 15, 131, 132, 114, 71, 142, 121, 61, 105, 216, 71, 125, 228>>

\* The 92 bytes of a GPT header
GptHeaderBytes(signature, entry_lba, num_entries, entry_size) ==
    signature \o Num(65536, 4) \o Num(92, 4) \o Zeros(4) \o Zeros(4)
      \o Num(1, 8) \o Num(MaxSectors - 1, 8) \o Num(2, 8) \o Num(MaxSectors - 1, 8)
      \o EspGuid \o entry_lba \o Num(num_entries, 4) \o Num(entry_size, 4)
      \o Zeros(4)

\* The 128 bytes of a GPT entry: used (the ESP type) or unused (type zero)
GptEntryBytes(used, starting_lba) ==
    (IF used THEN EspGuid ELSE Zeros(16)) \o EspGuid
      \o Num(starting_lba, 8) \o Num(starting_lba, 8) \o Zeros(8) \o Zeros(72)

RECURSIVE Concat(_)
Concat(seqs) == IF seqs = <<>> THEN <<>> ELSE Head(seqs) \o Concat(Tail(seqs))

Pad(bytes, n) == bytes \o Zeros(n - Len(bytes))

\* The boot sector of an MBR whose slot 1 is an extended partition
\* (type 0x05) that starts at LBA base
ExtendedBootSector(base) ==
    BootSector(<<>>, <<EntryBytes(0, 5, Num(base, 4), Num(LastLba, 4)),
                       UnusedEntry, UnusedEntry, UnusedEntry>>, MBR_SIGNATURE)

\* One extended slot in the MBR; every other sector an EBR link with a
\* logical partition in slot 0 (its size the link's LBA), and the slot 1
\* pointers any function of the LBAs: chains that end, chains that loop,
\* links that point at themselves.
EbrChainImages ==
    { Concat(<<ExtendedBootSector(base)>>
             \o [j \in 1..LastLba |-> EbrSector("data", ptr[j], j)]) :
        base \in 1..LastLba, ptr \in [1..LastLba -> 0..LastLba] }

\* The chain of the links at LBA base, base + 1, ... whose slot 1 holds the
\* given step (0: every link is the last one), with one link whose slot 0 is
\* unused or holds the start_lba 0xFFFFFFFF.
EbrOddImages ==
    { Concat(<<ExtendedBootSector(base)>>
             \o [j \in 1..LastLba |->
                   EbrSector(IF j = odd THEN kind ELSE "data",
                             IF j < LastLba THEN step ELSE 0, j)]) :
        base \in 1..LastLba, odd \in 1..LastLba, kind \in {"none", "far"},
        step \in 0..LastLba }

EbrImages == EbrChainImages \cup EbrOddImages

\* Boot sectors with any kind of entry in slot 1 and in one more slot, under
\* the signature 0xAA55, its bytes swapped, or none; LBA 1 and 2 hold a chain
\* of two links.
MbrImages ==
    { Concat(<<BootSector(<<>>, [i \in 1..4 |-> IF i = 1 THEN SlotBytes(k1)
                                              ELSE IF i = j THEN SlotBytes(k2)
                                              ELSE UnusedEntry], signature),
               EbrSector("data", 2, 1), EbrSector("data", 0, 2)>>
             \o [i \in 1..(MaxSectors - 3) |-> ZeroSector]) :
        k1 \in SlotKinds, k2 \in SlotKinds, j \in 2..4,
        signature \in {MBR_SIGNATURE, 21930, 0} }

BadSignature == <<69, 70, 73, 32, 80, 65, 82, 0>>

\* 2^63, an LBA whose byte offset does not fit in a u64
HugeLba == <<0, 0, 0, 0, 0, 0, 0, 128>>

\* A protective MBR or none; at LBA 1 a header with a good or a bad
\* signature, whose entry array is at LBA 2, past the end of the image or
\* at LBA 2^63, with 0 .. MaxEntries entries of 128 or 64 bytes; at LBA 2 MaxEntries
\* entries, each used or unused; at the last LBA a backup header or zeroes.
GptImages ==
    { Concat(<<IF pmbr THEN BootSector(<<>>, <<SlotBytes("protective"), UnusedEntry,
                                               UnusedEntry, UnusedEntry>>, MBR_SIGNATURE)
                       ELSE ZeroSector,
               Pad(GptHeaderBytes(IF primary THEN EFI_PART ELSE BadSignature,
                                  entry_lba, num, size), DEFAULT_SECTOR_SIZE),
               Pad(Concat([i \in 1..MaxEntries |-> GptEntryBytes(used[i], 2 + i)]),
                   DEFAULT_SECTOR_SIZE)>>
             \o [i \in 1..(MaxSectors - 4) |-> ZeroSector]
             \o <<IF backup
                  THEN Pad(GptHeaderBytes(EFI_PART, Num(2, 8), MaxEntries, GPT_ENTRY_LEN),
                           DEFAULT_SECTOR_SIZE)
                  ELSE ZeroSector>>) :
        pmbr \in BOOLEAN, primary \in BOOLEAN, backup \in BOOLEAN,
        entry_lba \in {Num(2, 8), Num(MaxSectors, 8), HugeLba},
        num \in 0..MaxEntries, size \in {GPT_ENTRY_LEN, 64},
        used \in [1..MaxEntries -> BOOLEAN] }

\* Images smaller than one sector: a boot sector cut after 0, 1, 447 or 511
\* bytes (the last one keeps the 55 of the signature and loses the AA)
SmallImages ==
    { Slice(BootSector(<<>>, <<SlotBytes(k), UnusedEntry, UnusedEntry, UnusedEntry>>,
                       MBR_SIGNATURE), 0, n) :
        k \in SlotKinds, n \in {0, 1, BOOTLOADER_LEN + 1, MBR_LEN - 1} }

Images == EbrImages \cup MbrImages \cup GptImages \cup SmallImages

---------------------------------------------------------------------------
(* The discovery call *)

Init ==
    /\ image \in Images
    /\ pos = 0
    /\ pc = "mbr"
    /\ mbr_record = None
    /\ ebr_record = None
    /\ gpt_record = None
    /\ slot = 1
    /\ all_partitions = <<>>
    /\ next_lba = Zeros(4)
    /\ frames = <<>>
    /\ visited = <<>>
    /\ walks = <<>>
    /\ cause = ""
    /\ input = None
    /\ output = None

\* A panic (unwrap / expect on an Err, an arithmetic overflow in a build that
\* checks it) or the overflow of the stack: the call returns nothing.
Abort(why) ==
    /\ pc' = "abort"
    /\ cause' = why
    /\ UNCHANGED <<input, output, image, pos, mbr_record, ebr_record, gpt_record, slot,
                   all_partitions, next_lba, frames, visited, walks>>

\* The first match of Partitions::new followed by a second match that gives
\* Some(empty list) for its None arm
DiscoverMbr_ebrAlwaysSome ==
    /\ pc = "mbr"
    /\ LET rd == BodyRead(image, pos, DEFAULT_SECTOR_SIZE)
           main_mbr == MBR_from_bytes(rd.buf)
       IN /\ pos' = rd.pos
          /\ IF is_mbr(main_mbr)
             THEN /\ mbr_record' = Some(main_mbr)
                  /\ ebr_record' = None
                  /\ pc' = "ebr"
             ELSE /\ mbr_record' = None
                  /\ ebr_record' = Some(<<>>)
                  /\ pc' = "gpt"
    /\ slot' = 1
    /\ all_partitions' = <<>>
    /\ UNCHANGED <<input, output, image, gpt_record, next_lba, frames, visited, walks, cause>>

\* discover_mbr_partitions and the first match of Partitions::new: the read
\* is made at the position the handle has.
DiscoverMbr ==
    /\ pc = "mbr"
    /\ LET rd == BodyRead(image, pos, DEFAULT_SECTOR_SIZE)
           main_mbr == MBR_from_bytes(rd.buf)
       IN /\ pos' = rd.pos
          /\ IF is_mbr(main_mbr)
             THEN /\ mbr_record' = Some(main_mbr)
                  /\ pc' = "ebr"
             ELSE /\ mbr_record' = None
                  /\ pc' = "gpt"
    /\ ebr_record' = None
    /\ slot' = 1
    /\ all_partitions' = <<>>
    /\ UNCHANGED <<input, output, image, gpt_record, next_lba, frames, visited, walks, cause>>

\* body.read(..).unwrap() of discover_mbr_partitions on an Err
DiscoverMbrReadFails ==
    /\ pc = "mbr"
    /\ Abort("mbr read")

\* The match without its third pattern, 0x85
ExtendedTypes_without85 == {5, 15}

\* The patterns of the match of discover_ebr_partitions: 0x05 | 0x0F | 0x85
ExtendedTypes == {5, 15, 133}

\* One turn of the for loop of discover_ebr_partitions, up to the call of
\* parse_ebr; after the fourth slot, the second match of Partitions::new.
DiscoverEbrSlot ==
    /\ pc = "ebr"
    /\ IF slot > 4
       THEN /\ ebr_record' = Some(all_partitions)
            /\ pc' = "gpt"
            /\ UNCHANGED <<slot, next_lba, visited, walks>>
       ELSE LET p == mbr_record.some.partition_table[slot]
            IN IF p.partition_type \in ExtendedTypes
               THEN /\ next_lba' = p.start_lba
                    /\ visited' = <<>>
                    /\ walks' = Append(walks, [slot |-> slot, start_lba |-> p.start_lba,
                                                done |-> FALSE, links |-> <<>>,
                                                result |-> <<>>])
                    /\ pc' = "parse_ebr"
                    /\ UNCHANGED <<slot, ebr_record>>
               ELSE /\ slot' = slot + 1
                    /\ UNCHANGED <<pc, next_lba, visited, walks, ebr_record>>
    /\ UNCHANGED <<input, output, image, pos, mbr_record, gpt_record, all_partitions, frames, cause>>

\* The sector_size every parse_ebr call of a walk is given: that of the
\* MBR slot the walk starts from.
WalkSectorSize == mbr_record.some.partition_table[slot].sector_size

\* What one parse_ebr call leaves when its own work is done: its frame, and
\* either the recursive call or its return.
EnterLink(r) ==
    /\ frames' = Append(frames, [start_lba |-> next_lba, partitions_found |-> r.found])
    /\ visited' = Append(visited, [start_lba |-> next_lba, read_at |-> r.read_at,
                                    recurse |-> r.recurse, next |-> r.next])
    /\ pos' = r.pos
    /\ IF r.recurse
       THEN next_lba' = r.next /\ pc' = "parse_ebr"
       ELSE next_lba' = next_lba /\ pc' = "ebr_return"
    /\ UNCHANGED <<input, output, image, mbr_record, ebr_record, gpt_record, slot, all_partitions,
                   walks, cause>>

\* parse_ebr from its entry to its recursive call or, without one, to the
\* point of its return; an overflowing sum wraps (a build without overflow
\* checks).
ParseEbr ==
    /\ pc = "parse_ebr"
    /\ Len(frames) < StackLimit
    /\ EnterLink(parse_ebr_link(image, next_lba, WalkSectorSize))

\* The same call in a build with overflow checks, on a sum that overflows
ParseEbrAddPanics ==
    /\ pc = "parse_ebr"
    /\ Len(frames) < StackLimit
    /\ parse_ebr_link(image, next_lba, WalkSectorSize).overflow
    /\ Abort("add overflow")

\* body.seek(..).unwrap() or body.read(..).unwrap() of parse_ebr on an Err
ParseEbrIoFails ==
    /\ pc = "parse_ebr"
    /\ Len(frames) < StackLimit
    /\ Abort("ebr read")

\* A call for which the stack has no room left
ParseEbrStackOverflow ==
    /\ pc = "parse_ebr"
    /\ Len(frames) >= StackLimit
    /\ Abort("stack overflow")

\* The return of the innermost parse_ebr call: its caller appends the result
\* to its own partitions_found and returns in turn; the orchestrator extends
\* all_partitions and goes on with the next slot.
ParseEbrReturn ==
    /\ pc = "ebr_return"
    /\ LET n == Len(frames)
           further == frames[n].partitions_found
       IN IF n > 1
          THEN /\ frames' = [SubSeq(frames, 1, n - 1) EXCEPT
                               ![n - 1].partitions_found = @ \o further]
               /\ UNCHANGED <<pc, all_partitions, slot, walks>>
          ELSE /\ frames' = <<>>
               /\ all_partitions' = all_partitions \o further
               /\ slot' = slot + 1
               /\ walks' = [walks EXCEPT ![Len(walks)] =
                              [@ EXCEPT !.done = TRUE, !.links = visited,
                                        !.result = further]]
               /\ pc' = "ebr"
    /\ UNCHANGED <<input, output, image, pos, mbr_record, ebr_record, gpt_record, next_lba,
                   visited, cause>>

\* discover_gpt_partitions and the third match of Partitions::new, then the
\* Ok(Partitions { .. }); an overflowing product wraps.
DiscoverGpt ==
    /\ pc = "gpt"
    /\ LET r == discover_gpt_partitions(image)
       IN /\ r.outcome \in {"ok", "err"}
          /\ gpt_record' = IF r.outcome = "ok" THEN Some(r.gpt) ELSE None
          /\ pos' = r.pos
    /\ pc' = "done"
    /\ UNCHANGED <<input, output, image, mbr_record, ebr_record, slot, all_partitions, next_lba,
                   frames, visited, walks, cause>>

\* The .expect of the entry loop on an entry array that ends past the end of
\* the image, or on a partition_entry_size below the 128 bytes decoded
DiscoverGptEntryPanics ==
    /\ pc = "gpt"
    /\ discover_gpt_partitions(image).outcome \in {"eof", "short"}
    /\ Abort("entry " \o discover_gpt_partitions(image).outcome)

\* partition_entry_lba * 512 in a build with overflow checks, on a product
\* that overflows
DiscoverGptMulPanics ==
    /\ pc = "gpt"
    /\ discover_gpt_partitions(image).overflow
    /\ Abort("mul overflow")

\* The .expect of a seek or of the header read on an Err
DiscoverGptIoFails ==
    /\ pc = "gpt"
    /\ Abort("gpt read")

Next ==
    \/ DiscoverMbr
    \/ DiscoverMbrReadFails
    \/ DiscoverEbrSlot
    \/ ParseEbr
    \/ ParseEbrAddPanics
    \/ ParseEbrIoFails
    \/ ParseEbrStackOverflow
    \/ ParseEbrReturn
    \/ DiscoverGpt
    \/ DiscoverGptEntryPanics
    \/ DiscoverGptMulPanics
    \/ DiscoverGptIoFails

Spec == Init /\ [][Next]_vars

\* Partitions::new called once more with the same handle, after the first
\* call has returned: the record it returned stays with the caller (output)
\* and the handle is where the first call left it.
CallAgain ==
    /\ pc = "done"
    /\ output = None
    /\ output' = Some([mbr |-> mbr_record, ebr |-> ebr_record, gpt |-> gpt_record])
    /\ pc' = "mbr"
    /\ mbr_record' = None
    /\ ebr_record' = None
    /\ gpt_record' = None
    /\ slot' = 1
    /\ all_partitions' = <<>>
    /\ next_lba' = Zeros(4)
    /\ frames' = <<>>
    /\ visited' = <<>>
    /\ walks' = <<>>
    /\ UNCHANGED <<input, image, pos, cause>>

RepeatNext ==
    \/ Next
    \/ CallAgain

\* Two discovery calls in a row on one handle
RepeatSpec == Init /\ [][RepeatNext]_vars

---------------------------------------------------------------------------
(* The decoders called on their own: MBR::from_bytes on a byte slice of    *)
(* any length, format_guid on a 16-byte array.                             *)

\* The number of byte patterns of the GUIDs handed to format_guid
MaxGuidSeed == 15

\* A sector all of whose bytes differ from their neighbours
PatternSector == [i \in 1..MBR_LEN |-> (7 * i) % 256]

\* Sectors: the boot sectors of the MBR images, EBR links, a blank one
DecodeSectors ==
    { Slice(img, 0, MBR_LEN) : img \in MbrImages }
      \cup { EbrSector(kind, 1, 1) : kind \in {"none", "data", "far"} }
      \cup { ZeroSector, PatternSector }

\* The slices handed to MBR::from_bytes: a sector cut short, whole, or
\* followed by more bytes
MbrInputs ==
    { Slice(s, 0, n) : s \in DecodeSectors,
                       n \in {0, BOOTLOADER_LEN, MBR_LEN - 2, MBR_LEN - 1, MBR_LEN} }
      \cup { s \o <<255, 255>> : s \in DecodeSectors }

\* The arrays handed to format_guid
Guids ==
    { EspGuid, LinuxGuid, Zeros(16) }
      \cup { [i \in 1..16 |-> (a * i + b) % 256] : a \in {1, 17, 75}, b \in 0..MaxGuidSeed }

\* The CHS addresses handed to chs_tuple: every second byte, with some
\* first and third bytes
ChsInputs ==
    { <<b0, b1, b2>> : b0 \in {0, 16, 255}, b1 \in 0..255, b2 \in {0, 5, 128, 255} }

DecodeInit ==
    /\ input \in { [fn |-> "MBR::from_bytes", arg |-> b] : b \in MbrInputs }
                   \cup { [fn |-> "format_guid", arg |-> g] : g \in Guids }
                   \cup { [fn |-> "chs_tuple", arg |-> c] : c \in ChsInputs }
    /\ output = None
    /\ pc = "call"
    /\ image = <<>>
    /\ pos = 0
    /\ mbr_record = None
    /\ ebr_record = None
    /\ gpt_record = None
    /\ slot = 1
    /\ all_partitions = <<>>
    /\ next_lba = Zeros(4)
    /\ frames = <<>>
    /\ visited = <<>>
    /\ walks = <<>>
    /\ cause = ""

\* MBR::from_bytes(&input.arg): the MBR returned, or std::process::exit(1)
\* on fewer than 512 bytes, which ends the caller with the process.
CallMbrFromBytes ==
    /\ pc = "call"
    /\ input.fn = "MBR::from_bytes"
    /\ LET mbr == MBR_from_bytes(input.arg)
       IN IF "exit" \in DOMAIN mbr
          THEN /\ pc' = "exit"
               /\ output' = None
          ELSE /\ pc' = "returned"
               /\ output' = Some(mbr)
    /\ UNCHANGED <<input, image, pos, mbr_record, ebr_record, gpt_record, slot,
                   all_partitions, next_lba, frames, visited, walks, cause>>

\* format_guid(&input.arg)
CallFormatGuid ==
    /\ pc = "call"
    /\ input.fn = "format_guid"
    /\ pc' = "returned"
    /\ output' = Some(format_guid(input.arg))
    /\ UNCHANGED <<input, image, pos, mbr_record, ebr_record, gpt_record, slot,
                   all_partitions, next_lba, frames, visited, walks, cause>>

\* MBRPartitionEntry::chs_tuple(input.arg), as start_chs_tuple and
\* end_chs_tuple call it
CallChsTuple ==
    /\ pc = "call"
    /\ input.fn = "chs_tuple"
    /\ pc' = "returned"
    /\ output' = Some(chs_tuple(input.arg))
    /\ UNCHANGED <<input, image, pos, mbr_record, ebr_record, gpt_record, slot,
                   all_partitions, next_lba, frames, visited, walks, cause>>

DecodeNext ==
    \/ CallMbrFromBytes
    \/ CallFormatGuid
    \/ CallChsTuple

DecodeSpec == DecodeInit /\ [][DecodeNext]_vars

---------------------------------------------------------------------------
(* What the image holds, read with the on-disk formats alone *)

\* The sector at LBA lba (zeroes past the end of the image), as an
\* MBR-shaped sector
SectorAt(lba) ==
    MBR_from_bytes(BodyRead(image, Min(lba * DEFAULT_SECTOR_SIZE, Len(image)),
                            MBR_LEN).buf)

\* The first sector of the image
BootSectorOfImage == SectorAt(0)

\* A slot that is of a type, with a boot indicator of 0x00 or 0x80 and a
\* start LBA
WellFormedSlot(p) ==
    /\ p.partition_type # 0
    /\ p.boot_indicator \in {0, 128}
    /\ p.start_lba # Zeros(4)

HasWellFormedSlot(mbr) == \E i \in 1..4 : WellFormedSlot(mbr.partition_table[i])

\* The call has gone past the MBR step and has not aborted
MbrDecided == pc \in {"ebr", "parse_ebr", "ebr_return", "gpt", "done"}

\* The EBR chain of the extended partition that starts at LBA base, as the
\* format defines it: the first link is at base, slot 1 of a link holds the
\* LBA of the next one relative to base.  The LBAs of the links, in chain
\* order; <<-1>> for a chain that does not end within the image's sectors.
RECURSIVE OnDiskChain(_, _, _)
OnDiskChain(base, lba, left) ==
    LET slot1 == SectorAt(lba).partition_table[2]
    IN IF left = 0 THEN <<-1>>
       ELSE IF slot1.partition_type = 0 THEN <<lba>>
       ELSE LET rest == OnDiskChain(base, base + ValCapped(slot1.start_lba, MaxSectors),
                                    left - 1)
            IN IF rest = <<-1>> THEN rest ELSE <<lba>> \o rest

ChainOf(base) == OnDiskChain(base, base, MaxSectors + 1)

\* An acyclic chain all of whose links hold a logical partition in slot 0
PopulatedChain(chain) ==
    /\ chain # <<-1>>
    /\ \A i \in 1..Len(chain) : SectorAt(chain[i]).partition_table[1].partition_type # 0

\* The fields of a partition that the walker does not rewrite
RawFields(p) == <<p.boot_indicator, p.start_chs, p.partition_type, p.end_chs,
                  p.size_sectors>>

\* Some LBA is the start_lba of two links of the walk in progress
Revisits ==
    \E i, j \in 1..Len(visited) :
        i < j /\ visited[i].start_lba = visited[j].start_lba

\* What the walker has handed to its caller
WalkerOutcome ==
    CASE pc = "abort" -> "abort"
      [] pc = "parse_ebr" -> "recursing"
      [] OTHER -> "partitions"

\* a + b and a * k without loss, on 8 bytes
ExactSum(a, b) == AddCarry(Widen(a, 8), Widen(b, 8)).sum

ExactProduct(a, k) == MulCarry(Widen(a, 8), k).prod

\* The GPT header at the byte offset off
HeaderAt(off) == GPT_from_bytes(BodyRead(image, Min(off, Len(image)), GPT_BUFFER_LEN).buf)

PrimaryHeader == HeaderAt(DEFAULT_SECTOR_SIZE)

\* The header at the last LBA, (image length / sector size) - 1
BackupHeader ==
    HeaderAt(IF Len(image) < DEFAULT_SECTOR_SIZE THEN Len(image)
             ELSE (Len(image) \div DEFAULT_SECTOR_SIZE - 1) * DEFAULT_SECTOR_SIZE)

\* The i-th record (from 1) of the entry array a valid header declares, at
\* partition_entry_lba * sector size + (i - 1) * partition_entry_size
\* (zeroes where the image has no such byte)
EntryRecord(header, i) ==
    LET at == ValCapped(header.partition_entry_lba, MaxSectors) * DEFAULT_SECTOR_SIZE
              + (i - 1) * ValCapped(header.partition_entry_size, Len(image))
    IN GPTPartitionEntry(BodyRead(image, Min(at, Len(image)), GPT_ENTRY_LEN).buf)

UsedEntry(e) == e.partition_type_guid # Zeros(16)

---------------------------------------------------------------------------
(* Claims *)

\* C1: a discovery call always ends by returning a discovery record; it
\* never panics, aborts or exits, whatever the image holds and whatever the
\* source answers.
C1_DiscoveryNeverAborts == pc # "abort"

\* C2: every EBR chain walk stops after a bounded number of links, also on a
\* chain that leads back to an LBA it has visited: no walk goes on until the
\* stack has no room for one more call.
C2_EbrWalkTerminates == cause # "stack overflow"

\* C3: once a walk is at an LBA it has already visited, the walker's outcome
\* is the UnboundedChain error, handed to its caller as a value.
C3_UnboundedChainReported == Revisits => WalkerOutcome = "UnboundedChain"

\* C4: for an acyclic EBR chain of K links, each with a logical partition in
\* slot 0, the walker returns exactly K partitions, that of link i in place i.
C4_ChainYieldsItsPartitions ==
    \A k \in 1..Len(walks) :
        LET chain == ChainOf(ValCapped(walks[k].start_lba, MaxSectors))
        IN (walks[k].done /\ PopulatedChain(chain)) =>
              /\ Len(walks[k].result) = Len(chain)
              /\ \A i \in 1..Len(chain) :
                    RawFields(walks[k].result[i])
                      = RawFields(SectorAt(chain[i]).partition_table[1])

\* C5: every link after the first one is read at the absolute LBA
\* B + (slot 1 start_lba of the link before it), B the start_lba of the MBR
\* slot the walk started from.
C5_NextLinkRelativeToBase ==
    \A i \in 2..Len(visited) :
        visited[i].read_at
          = ExactProduct(ExactSum(walks[Len(walks)].start_lba, visited[i - 1].next),
                         DEFAULT_SECTOR_SIZE)

\* C6: the partition recorded for a link whose slot 0 is of a type has the
\* start_lba (LBA the link was read at) + (start_lba stored in slot 0), and
\* the first_byte_addr start_lba * sector size.
C6_LogicalPartitionAddress ==
    (pc \in {"parse_ebr", "ebr_return"} /\ Len(frames) = Len(visited) /\ frames # <<>>) =>
        LET n == Len(frames)
            stored == SectorAt(ValCapped(frames[n].start_lba, MaxSectors)).partition_table[1]
            found == frames[n].partitions_found
        IN stored.partition_type # 0 =>
              /\ Len(found) = 1
              /\ Widen(found[1].start_lba, 8) = ExactSum(frames[n].start_lba, stored.start_lba)
              /\ found[1].first_byte_addr
                   = ExactProduct(ExactSum(frames[n].start_lba, stored.start_lba),
                                  found[1].sector_size)

\* C7: a boot sector that ends in 0xAA55 but has no well-formed slot is not
\* a valid MBR: discovery reports no MBR for it.
C7_SignatureAloneIsNoMbr ==
    (MbrDecided /\ BootSectorOfImage.boot_signature = MBR_SIGNATURE
                /\ ~HasWellFormedSlot(BootSectorOfImage))
        => mbr_record = None

\* C8: the verdict is true for every sector with the signature 0xAA55 and a
\* well-formed slot, and false for every sector with another signature,
\* whatever its slots hold.
C8_IsMbrVerdict ==
    MbrDecided =>
        /\ (BootSectorOfImage.boot_signature = MBR_SIGNATURE
              /\ HasWellFormedSlot(BootSectorOfImage))
             => mbr_record = Some(BootSectorOfImage)
        /\ BootSectorOfImage.boot_signature # MBR_SIGNATURE => mbr_record = None

\* C8, its case: an MBR found in a sector with the signature and a
\* well-formed slot
C8_Witness ==
    /\ pc = "done"
    /\ BootSectorOfImage.boot_signature = MBR_SIGNATURE
    /\ HasWellFormedSlot(BootSectorOfImage)
    /\ IsSome(mbr_record)

\* C9: with no valid header at LBA 1 and a valid one at the last LBA,
\* discovery returns the GPT of the backup header; GPT is absent only if
\* neither header is valid.
C9_BackupHeaderFallback ==
    pc = "done" =>
        /\ (~is_gpt(PrimaryHeader) /\ is_gpt(BackupHeader))
             => (IsSome(gpt_record) /\ gpt_record.some.header = BackupHeader.header)
        /\ gpt_record = None => (~is_gpt(PrimaryHeader) /\ ~is_gpt(BackupHeader))

\* C10: the GPT partition list holds no entry whose type GUID is all zero:
\* it is the used records among the first num_partition_entries records of
\* the array, in array order.
C10_NoUnusedGptEntry ==
    (pc = "done" /\ IsSome(gpt_record)) =>
        LET gpt == gpt_record.some
            declared == [i \in 1..ValCapped(gpt.header.num_partition_entries, Len(image)) |->
                           EntryRecord(gpt.header, i)]
        IN /\ \A i \in 1..Len(gpt.partition_entries) : UsedEntry(gpt.partition_entries[i])
           /\ gpt.partition_entries = SelectSeq(declared, UsedEntry)


\* The image with its sector 0 replaced by zeroes
BlankedBootSector ==
    Zeros(Min(DEFAULT_SECTOR_SIZE, Len(image)))
      \o SubSeq(image, Min(DEFAULT_SECTOR_SIZE, Len(image)) + 1, Len(image))

\* What GPT discovery returns to the orchestrator for the image img
GptRecordOf(img) ==
    LET r == discover_gpt_partitions(img)
    IN IF r.outcome = "ok" THEN Some(r.gpt) ELSE None

\* The aborts of the GPT step
GptCauses == {"gpt read", "entry eof", "entry short", "mul overflow"}

\* C11: GPT discovery is attempted for every image, an MBR found or not (no
\* call ends before its GPT step), and the GPT part of the record is that of
\* the image whose sector 0 is blank.
C11_GptIndependentOfMbr ==
    /\ pc = "abort" => cause \in GptCauses
    /\ pc = "done" => gpt_record = GptRecordOf(BlankedBootSector)


\* The slots 1 .. upto of mbr whose partition_type is 0x05, 0x0F or 0x85,
\* in table order
ExtendedSlots(mbr, upto) ==
    SelectSeq(<<1, 2, 3, 4>>,
              LAMBDA i : i <= upto /\ mbr.partition_table[i].partition_type \in {5, 15, 133})

\* The slots the orchestrator has dealt with, the one it is at included once
\* the walker has been called for it
SlotsDone ==
    CASE pc \in {"gpt", "done"} -> 4
      [] pc = "ebr" -> slot - 1
      [] OTHER -> slot

\* C12: the walker is invoked once for each slot of type 0x05, 0x0F or 0x85,
\* in slot order, with the slot's start_lba, and for no other slot; the EBR
\* result is the concatenation of what the walks returned, the empty list
\* when there was none.
C12_WalkerInvokedPerExtendedSlot ==
    (IsSome(mbr_record) /\ pc \in {"ebr", "parse_ebr", "ebr_return", "gpt", "done"}) =>
        LET mbr == mbr_record.some
            ext == ExtendedSlots(mbr, SlotsDone)
        IN /\ Len(walks) = Len(ext)
           /\ \A k \in 1..Len(walks) :
                 /\ walks[k].slot = ext[k]
                 /\ walks[k].start_lba = mbr.partition_table[ext[k]].start_lba
                 /\ walks[k].done =>
                       walks[k].links[1].start_lba = mbr.partition_table[ext[k]].start_lba
           /\ pc \in {"gpt", "done"} =>
                 ebr_record = Some(Concat([k \in 1..Len(walks) |-> walks[k].result]))

\* C12, its case: two slots of an extended type, both walked, their
\* partitions in the EBR result
C12_Witness ==
    /\ pc = "done"
    /\ Len(walks) = 2
    /\ walks[1].slot < walks[2].slot
    /\ walks[1].result # <<>>
    /\ walks[2].result # <<>>
    /\ ebr_record = Some(walks[1].result \o walks[2].result)


\* The bytes the image holds among the len bytes from offset off
ImageBytes(off, len) ==
    SubSeq(image, Min(off, Len(image)) + 1, Min(off + len, Len(image)))

\* The position of the handle after the read of the GPT header buffer
AfterHeaderRead == Min(DEFAULT_SECTOR_SIZE + GPT_BUFFER_LEN, Len(image))

\* C13: a header at LBA 1 whose first 8 bytes are not "EFI PART" makes GPT
\* discovery fail with its signature error, no partition entry is read (the
\* handle stays where the header read left it) and the record has no GPT.
C13_GptGatedOnSignature ==
    (pc = "done" /\ ImageBytes(DEFAULT_SECTOR_SIZE, 8) # <<69, 70, 73, 32, 80, 65, 82, 84>>) =>
        /\ discover_gpt_partitions(image).outcome = "err"
        /\ gpt_record = None
        /\ pos = AfterHeaderRead

\* C13, its case: a header that differs from a valid one in the last byte of
\* its signature only and declares entries, found absent
C13_Witness ==
    /\ pc = "done"
    /\ ImageBytes(DEFAULT_SECTOR_SIZE, 8) = BadSignature
    /\ PrimaryHeader.header.num_partition_entries # Zeros(4)
    /\ gpt_record = None
    /\ pos = AfterHeaderRead


\* partition_entry_lba * sector size without loss, as a position of the
\* handle (the image's length when it is past the end)
EntryArrayStart(header) ==
    ValCapped(MulCarry(Widen(header.partition_entry_lba, 10), DEFAULT_SECTOR_SIZE).prod,
              Len(image))

\* C14: after a valid header, the entries of the record are exactly the
\* num_partition_entries records of partition_entry_size bytes that start
\* at byte partition_entry_lba * sector size, the i-th taken i records after
\* that offset, and the handle is left at the end of the last one.
C14_EntriesReadAtDeclaredOffsets ==
    (pc = "done" /\ IsSome(gpt_record)) =>
        LET header  == gpt_record.some.header
            entries == gpt_record.some.partition_entries
            num  == ValCapped(header.num_partition_entries, Len(image))
            size == ValCapped(header.partition_entry_size, Len(image))
        IN /\ Len(entries) = num
           /\ \A i \in 1..Len(entries) : entries[i] = EntryRecord(header, i)
           /\ pos = Min(EntryArrayStart(header) + num * size, Len(image))


\* An image with a protective MBR (slot 1 of type 0xEE, boot indicator 0x00,
\* start LBA 1, the other slots unused, the bytes 55 AA at offset 510) and,
\* at LBA 1, a header with the signature "EFI PART" that declares no entry
EndToEndImage ==
    /\ Len(image) >= 2 * DEFAULT_SECTOR_SIZE
    /\ image[447] = 0
    /\ image[451] = 238
    /\ Slice(image, 454, 4) = <<1, 0, 0, 0>>
    /\ Slice(image, 462, 48) = Zeros(48)
    /\ Slice(image, 510, 2) = <<85, 170>>
    /\ Slice(image, DEFAULT_SECTOR_SIZE, 8) = <<69, 70, 73, 32, 80, 65, 82, 84>>
    /\ Slice(image, DEFAULT_SECTOR_SIZE + 80, 4) = Zeros(4)

\* C15: the discovery record of such an image has the MBR, with the
\* protective-MBR verdict true, an EBR list that is present and empty, and a
\* GPT whose entry list is empty.
C15_EndToEndProtectiveMbr ==
    (pc = "done" /\ EndToEndImage) =>
        /\ IsSome(mbr_record)
        /\ is_pmbr(mbr_record.some)
        /\ ebr_record = Some(<<>>)
        /\ IsSome(gpt_record)
        /\ gpt_record.some.partition_entries = <<>>

\* C15, its case: the discovery of such an image has returned
C15_Witness ==
    /\ pc = "done"
    /\ EndToEndImage
    /\ IsSome(mbr_record)
    /\ ebr_record = Some(<<>>)
    /\ IsSome(gpt_record)
    /\ gpt_record.some.header.num_partition_entries = Zeros(4)


\* MBR::from_bytes has returned an MBR
MbrDecoded == pc = "returned" /\ input.fn = "MBR::from_bytes"

\* The 16 bytes of slot i (0 .. 3) of the slice handed to the decoder
RawSlot(i) == Slice(input.arg, 446 + 16 * i, 16)

\* C16: the protective-MBR verdict of a decoded MBR is true exactly when one
\* of the 4 slots of the sector has the type byte 0xEE, whatever else the
\* sector holds.
C16_ProtectiveVerdict ==
    MbrDecoded =>
        (is_pmbr(output.some) <=> \E i \in 0..3 : RawSlot(i)[5] = 238)

\* C16, its case: a sector whose only slot of type 0xEE is not the first
\* one, decoded
C16_Witness ==
    /\ MbrDecoded
    /\ RawSlot(0)[5] # 238
    /\ \E i \in 1..3 : RawSlot(i)[5] = 238
    /\ is_pmbr(output.some)


\* C17: MBR::from_bytes on fewer than 512 bytes hands the TruncatedInput
\* error back to its caller, which goes on running; no MBR comes out of it.
C17_TruncatedInputReturned ==
    (pc # "call" /\ input.fn = "MBR::from_bytes" /\ Len(input.arg) < 512) =>
        /\ pc = "returned"
        /\ output = [err |-> "TruncatedInput"]


\* 512 * a for a u32 a, on 8 bytes: a moved up by one byte and doubled
Times512(a) ==
    LET s == a \o <<0, 0, 0, 0, 0>>
    IN [k \in 1..8 |-> IF k = 1 THEN 0
                       ELSE ((2 * s[k - 1]) % 256) + (IF k > 2 THEN s[k - 2] \div 128 ELSE 0)]

\* C18: slot i (0 .. 3) of the decoded MBR comes from the 16 bytes at offset
\* 446 + 16 * i, in table order whatever the LBAs; start_lba and
\* size_sectors are the little-endian values of bytes 8..11 and 12..15 of
\* the slot; the signature is the little-endian value of bytes 510..511
\* (55 AA is 0xAA55); first_byte_addr is start_lba * sector_size.
C18_MbrDecodeLayout ==
    MbrDecoded =>
        LET mbr == output.some
        IN /\ \A i \in 0..3 :
                LET p == mbr.partition_table[i + 1]
                    raw == RawSlot(i)
                IN /\ p.boot_indicator = raw[1]
                   /\ p.partition_type = raw[5]
                   /\ \A k \in 1..4 : /\ p.start_lba[k] = raw[8 + k]
                                      /\ p.size_sectors[k] = raw[12 + k]
                   /\ p.sector_size = 512
                   /\ p.first_byte_addr = Times512(p.start_lba)
           /\ mbr.boot_signature = input.arg[511] + 256 * input.arg[512]
           /\ (input.arg[511] = 85 /\ input.arg[512] = 170) => mbr.boot_signature = 43605

\* C18, its case: a sector with the bytes 55 AA whose slot 0 starts at a
\* higher LBA than a later slot, decoded with the slots in table order
C18_Witness ==
    /\ MbrDecoded
    /\ input.arg[511] = 85 /\ input.arg[512] = 170
    /\ output.some.boot_signature = 43605
    /\ \E i \in 1..3 :
          /\ RawSlot(i)[5] # 0
          /\ Val(output.some.partition_table[1].start_lba)
               > Val(output.some.partition_table[i + 1].start_lba)
          /\ output.some.partition_table[i + 1].first_byte_addr
               = <<0, 2, 0, 0, 0, 0, 0, 0>>


\* format_guid has returned
GuidFormatted == pc = "returned" /\ input.fn = "format_guid"

\* The value of a hexadecimal digit of either case, -1 for any other
\* character
HexValue(c) ==
    CASE c = "0" -> 0 [] c = "1" -> 1 [] c = "2" -> 2 [] c = "3" -> 3
      [] c = "4" -> 4 [] c = "5" -> 5 [] c = "6" -> 6 [] c = "7" -> 7
      [] c = "8" -> 8 [] c = "9" -> 9
      [] c \in {"a", "A"} -> 10 [] c \in {"b", "B"} -> 11 [] c \in {"c", "C"} -> 12
      [] c \in {"d", "D"} -> 13 [] c \in {"e", "E"} -> 14 [] c \in {"f", "F"} -> 15
      [] OTHER -> -1

\* The index (from 0) of the raw byte printed as the k-th byte (from 1) of
\* the string
PrintedByte == <<3, 2, 1, 0, 5, 4, 7, 6, 8, 9, 10, 11, 12, 13, 14, 15>>

\* The place in the string of the first digit of its k-th byte: two digits
\* a byte, a dash after the 4th, 6th, 8th and 10th byte
DigitPlace(k) ==
    2 * k - 1 + (IF k > 4 THEN 1 ELSE 0) + (IF k > 6 THEN 1 ELSE 0)
              + (IF k > 8 THEN 1 ELSE 0) + (IF k > 10 THEN 1 ELSE 0)

\* C19: the string of a raw GUID g has the layout 8-4-4-4-12 and spells, in
\* hexadecimal digits of either case, the bytes g[3], g[2], g[1], g[0],
\* g[5], g[4], g[7], g[6], g[8], g[9], g[10] .. g[15] in that order.
C19_CanonicalGuidString ==
    GuidFormatted =>
        LET str == output.some
            g   == input.arg
        IN /\ Len(str) = 36
           /\ \A d \in {9, 14, 19, 24} : str[d] = "-"
           /\ \A k \in 1..16 :
                 /\ HexValue(str[DigitPlace(k)]) >= 0
                 /\ HexValue(str[DigitPlace(k) + 1]) >= 0
                 /\ 16 * HexValue(str[DigitPlace(k)]) + HexValue(str[DigitPlace(k) + 1])
                      = g[PrintedByte[k] + 1]

\* C19, its case: a GUID whose 16 bytes all differ, formatted
C19_Witness ==
    /\ GuidFormatted
    /\ \A i, j \in 1..16 : i # j => input.arg[i] # input.arg[j]
    /\ Len(output.some) = 36


\* C12A7328-F81F-11D2-BA4B-00A0C93EC93B, as written
EspGuidString ==
    <<"C", "1", "2", "A", "7", "3", "2", "8", "-", "F", "8", "1", "F", "-", "1", "1", "D", "2", "-", "B", "A", "4", "B", "-", "0", "0", "A", "0", "C", "9", "3", "E", "C", "9", "3", "B">>

\* The same GUID in lowercase, and the Linux filesystem GUID in mixed case
GuidStrings ==
    { EspGuidString,
      <<"c", "1", "2", "a", "7", "3", "2", "8", "-", "f", "8", "1", "f", "-", "1", "1", "d", "2", "-", "b", "a", "4", "b", "-", "0", "0", "a", "0", "c", "9", "3", "e", "c", "9", "3", "b">>,
      <<"0", "f", "c", "6", "3", "d", "a", "f", "-", "8", "4", "8", "3", "-", "4", "7", "7", "2", "-", "8", "E", "7", "9", "-", "3", "D", "6", "9", "D", "8", "4", "7", "7", "D", "E", "4">>,
      <<"0", "0", "0", "0", "0", "0", "0", "0", "-", "0", "0", "0", "0", "-", "0", "0", "0", "0", "-", "0", "0", "0", "0", "-", "0", "0", "0", "0", "0", "0", "0", "0", "0", "0", "0", "0">> }

\* The 16 bytes a GUID string spells, in the order of the string
SpelledBytes(str) ==
    [k \in 1..16 |-> 16 * HexValue(str[DigitPlace(k)]) + HexValue(str[DigitPlace(k) + 1])]

\* A GUID string written in the raw mixed-endian form: the first three
\* fields least significant byte first, the last 8 bytes as spelled
EncodeGuid(str) ==
    LET b == SpelledBytes(str)
    IN <<b[4], b[3], b[2], b[1], b[6], b[5], b[8], b[7]>> \o SubSeq(b, 9, 16)

\* A character in lowercase
Lower(c) ==
    CASE c = "A" -> "a" [] c = "B" -> "b" [] c = "C" -> "c"
      [] c = "D" -> "d" [] c = "E" -> "e" [] c = "F" -> "f"
      [] OTHER -> c

LowerString(str) == [i \in 1..Len(str) |-> Lower(str[i])]

\* C20: a GUID string written in raw mixed-endian form and formatted comes
\* back as the string it was, character for character, letter case included.
C20_GuidRoundTripExact ==
    GuidFormatted =>
        \A str \in GuidStrings : input.arg = EncodeGuid(str) => output.some = str

\* C20 as amended: the string comes back with its letters in lowercase (as
\* it was when it had no uppercase letter).
C20_GuidRoundTripLowercase ==
    GuidFormatted =>
        \A str \in GuidStrings : input.arg = EncodeGuid(str) => output.some = LowerString(str)

\* C20, its case: C12A7328-F81F-11D2-BA4B-00A0C93EC93B written raw and
\* formatted
C20_Witness ==
    /\ GuidFormatted
    /\ input.arg = EncodeGuid(EspGuidString)
    /\ output.some = <<"c", "1", "2", "a", "7", "3", "2", "8", "-", "f", "8", "1", "f", "-", "1", "1", "d", "2", "-", "b", "a", "4", "b", "-", "0", "0", "a", "0", "c", "9", "3", "e", "c", "9", "3", "b">>


\* chs_tuple has returned
ChsDecoded == pc = "returned" /\ input.fn = "chs_tuple"

\* C21: the CHS address of the bytes b0, b1, b2 has the head b0, the sector
\* made of the low 6 bits of b1 and the cylinder made of the high 2 bits of
\* b1 above the 8 bits of b2; the sector is at most 63 and the cylinder at
\* most 1023, and three zero bytes give (0, 0, 0).
C21_ChsDecode ==
    ChsDecoded =>
        LET b == input.arg
            cylinder == output.some[1]
            head     == output.some[2]
            sector   == output.some[3]
        IN /\ head = b[1]
           /\ sector = b[2] % 64
           /\ cylinder = 256 * (b[2] \div 64) + b[3]
           /\ sector <= 63
           /\ cylinder <= 1023
           /\ b = <<0, 0, 0>> => output.some = <<0, 0, 0>>

\* C21, its case: an address with both high bits of the second byte set,
\* decoded to a cylinder above 767
C21_Witness ==
    /\ ChsDecoded
    /\ input.arg[2] >= 192
    /\ output.some[1] > 767
    /\ output.some[3] > 0

\* C22: the bytes 10 81 05 decode to the cylinder 0x0105, the head 0x10 and
\* the sector 0x01.
C22_ChsExample ==
    (ChsDecoded /\ input.arg = <<16, 129, 5>>) => output.some = <<261, 16, 1>>

\* C22 as amended: the bytes 10 81 05 decode to the cylinder 0x0205, the
\* head 0x10 and the sector 0x01.
C22_ChsExampleAmended ==
    (ChsDecoded /\ input.arg = <<16, 129, 5>>) => output.some = <<517, 16, 1>>

\* C22, its case: the bytes 10 81 05, decoded
C22_Witness ==
    /\ ChsDecoded
    /\ input.arg = <<16, 129, 5>>
    /\ output.some[2] = 16


\* C23: the second of two discovery calls on the same handle returns the
\* record the first one returned, wherever the first one left the handle.
C23_RepeatedCallsAgree ==
    (pc = "done" /\ IsSome(output)) =>
        output.some = [mbr |-> mbr_record, ebr |-> ebr_record, gpt |-> gpt_record]


\* C25: the MBR step decodes the sector at byte 0 of the image, wherever
\* the handle stood when discovery was called: the MBR of the record is that
\* sector when it is a valid MBR, and absent otherwise.
C25_MbrReadAtOffsetZero ==
    MbrDecided =>
        mbr_record = (IF is_mbr(BootSectorOfImage) THEN Some(BootSectorOfImage) ELSE None)


\* C24: on an image smaller than one sector GPT discovery ends with its
\* error value and the record has no GPT: no offset it computes wraps
\* around, no entry is read and nothing in the GPT step panics.
C24_SmallImageGptAbsent ==
    Len(image) < DEFAULT_SECTOR_SIZE =>
        /\ discover_gpt_partitions(image).outcome = "err"
        /\ ~discover_gpt_partitions(image).overflow
        /\ cause \notin {"entry eof", "entry short", "mul overflow"}
        /\ pc = "done" => (gpt_record = None /\ pos = Len(image))

\* C24, its case: an image of 511 bytes, discovered, with neither an MBR nor
\* a GPT
C24_Witness ==
    /\ pc = "done"
    /\ Len(image) = DEFAULT_SECTOR_SIZE - 1
    /\ mbr_record = None
    /\ gpt_record = None


\* C26: when the GPT header is valid and its entry array cannot be read in
\* full (the array runs past the end of the image, or the entry size is
\* smaller than the 128 bytes of the entry layout), the failure stays inside
\* the GPT step: the call does not abort on it and returns a record whose GPT
\* is absent, with the MBR and EBR results found before.
C26_EntryArrayFailureConfined ==
    discover_gpt_partitions(image).outcome \in {"eof", "short"} =>
        /\ cause \notin {"entry eof", "entry short"}
        /\ pc = "done" => gpt_record = None

\* C27: every GPT partition entry of a returned record carries
\* first_byte_addr = starting_lba * sector_size.
C27_GptFirstByteAddr ==
    (pc = "done" /\ IsSome(gpt_record)) =>
        \A i \in 1..Len(gpt_record.some.partition_entries) :
            LET e == gpt_record.some.partition_entries[i]
            IN e.first_byte_addr = ExactProduct(e.starting_lba, DEFAULT_SECTOR_SIZE)


\* The sector of a link of a walk, as the image holds it
LinkSector(link) == SectorAt(ValCapped(link.start_lba, MaxSectors))

\* The links of a walk whose slot 0 is of a type
TypedLinks(links) ==
    SelectSeq(links, LAMBDA l : LinkSector(l).partition_table[1].partition_type # 0)

\* C28: a link whose slot 0 has type 0x00 contributes no partition (the
\* call made for it starts with an empty list, and a finished walk returns
\* as many partitions as it has links with a typed slot 0); the walk goes on
\* to the link that slot 1 names whenever slot 1 is of a type; no entry of
\* type 0x00 is in any list of the walker nor in the EBR result.
C28_EmptySlotSkippedWalkGoesOn ==
    /\ (pc \in {"parse_ebr", "ebr_return"} /\ Len(frames) = Len(visited)) =>
          \A i \in 1..Len(visited) :
             LET table == LinkSector(visited[i]).partition_table
             IN table[1].partition_type = 0 =>
                  /\ i = Len(frames) => frames[i].partitions_found = <<>>
                  /\ table[2].partition_type # 0 =>
                        IF i < Len(visited)
                        THEN visited[i + 1].start_lba = table[2].start_lba
                        ELSE pc = "parse_ebr" /\ next_lba = table[2].start_lba
    /\ \A k \in 1..Len(walks) :
          /\ walks[k].done => Len(walks[k].result) = Len(TypedLinks(walks[k].links))
          /\ \A j \in 1..Len(walks[k].result) : walks[k].result[j].partition_type # 0
    /\ \A i \in 1..Len(frames) : \A j \in 1..Len(frames[i].partitions_found) :
          frames[i].partitions_found[j].partition_type # 0
    /\ \A j \in 1..Len(all_partitions) : all_partitions[j].partition_type # 0
    /\ IsSome(ebr_record) =>
          \A j \in 1..Len(ebr_record.some) : ebr_record.some[j].partition_type # 0

\* C28, its case: a finished walk with a link whose slot 0 is unused and
\* whose slot 1 led to a further link, which gave a partition
C28_Witness ==
    /\ pc = "done"
    /\ IsSome(ebr_record)
    /\ \E k \in 1..Len(walks) : \E i \in 1..Len(walks[k].links) :
          /\ LinkSector(walks[k].links[i]).partition_table[1].partition_type = 0
          /\ i < Len(walks[k].links)
          /\ LinkSector(walks[k].links[i + 1]).partition_table[1].partition_type # 0
          /\ Len(walks[k].result) = Len(walks[k].links) - 1


\* C29: once the EBR step is over, the EBR list is present if and only if
\* the MBR is: without an MBR the walker has not been invoked and the EBR
\* result is absent, with an MBR the EBR result is a list, empty or not.
C29_EbrPresentIffMbr ==
    pc \in {"gpt", "done"} =>
        /\ IsSome(ebr_record) <=> IsSome(mbr_record)
        /\ mbr_record = None => (walks = <<>> /\ visited = <<>> /\ frames = <<>>)
        /\ IsSome(mbr_record) => ebr_record = Some(all_partitions)

\* C29, its case: a boot sector with a slot of an extended type and without
\* the signature; the record has no MBR and no EBR list
C29_Witness ==
    /\ pc = "done"
    /\ \E i \in 1..4 : BootSectorOfImage.partition_table[i].partition_type \in {5, 15, 133}
    /\ mbr_record = None
    /\ ebr_record = None


\* C30: the rewrite of slot 0 never overflows: no call aborts on the
\* addition, and for every link whose slot 0 is of a type the recorded
\* start_lba is the exact sum of the link's start LBA and the start_lba
\* stored in slot 0, not that sum modulo 2^32.
C30_RewriteNeverOverflows ==
    /\ cause # "add overflow"
    /\ (pc \in {"parse_ebr", "ebr_return"} /\ Len(frames) = Len(visited) /\ frames # <<>>) =>
          LET n == Len(frames)
              stored == LinkSector(visited[n]).partition_table[1]
              add == AddCarry(visited[n].start_lba, stored.start_lba)
          IN stored.partition_type # 0 =>
                /\ add.carry = 0
                /\ frames[n].partitions_found[1].start_lba = add.sum

============================================================================
